---- MODULE Spec2Model ----
(***************************************************************************)
(* A model of the igb driver core: the MAC register protocols of           *)
(* src/src/mac.rs, the retry helper of src/src/osal.rs and the bring-up    *)
(* sequence of src/src/lib.rs.                                             *)
(*                                                                         *)
(* A 32-bit register word is modelled as the set of the positions of its   *)
(* set bits (bit 0 is the least significant), so that bit 31 and u32::MAX  *)
(* are representable; a field's numeric value is computed from those bits. *)
(***************************************************************************)
EXTENDS Integers, Sequences, FiniteSets, TLC

VARIABLES
    reg_ctrl,       \* CTRL   @0x0     (word)
    reg_status,     \* STATUS @0x8     (word)
    reg_mdic,       \* MDIC   @0x20    (word)
    reg_eimc,       \* EIMC   @0x1528  (last word written)
    reg_eims,       \* EIMS   @0x1524  (last word written)
    io,             \* MMIO side effects of the current call, in program order
    pc,             \* position of the caller inside Igb::open
    calls,          \* MAC/PHY operations invoked by the current open(), in order
    rets,           \* <<step, result>> of each fallible step of the current open()
                    \* that has returned, in order
    ctrl_reads,     \* reads of CTRL by the current reset()
    ctrl_normal,    \* those of them that read CTRL.RST as 0
    open_result,    \* what open() returned ("None" while running)
    opens,          \* number of open() invocations so far
    wf_pc,          \* position inside wait_for
    wf_try_count,   \* wait_for's try_count argument: <<>> is None, <<n>> is Some(n)
    wf_i,           \* iterations of wait_for's for-loop started so far
    wf_evals,       \* evaluations of the predicate f
    wf_trues,       \* evaluations of f that yielded true
    wf_last,        \* what the latest evaluation of f yielded
    wf_sleeps,      \* calls of kernel::sleep
    wf_result,      \* what wait_for returned ("None" while running)
    m_pc,           \* position inside read_mdic / write_mdic
    m_op,           \* "read" or "write"
    m_polls,        \* polls of MDIC by the current transaction
    m_last,         \* the word the latest poll extracted
    m_early,        \* TRUE when a poll before the latest one saw READY or E
    m_result,       \* result of the transaction ("None" while running)
    m_data,         \* the u16 read_mdic returned
    mac_status,     \* <<the MacStatus the latest status() returned>>, <<>> before
    status_word,    \* the STATUS word that status() call extracted
    st_io,          \* MMIO side effects of the latest status() call
    st_at,          \* where the caller of open() stood at the latest status() call
    m_args,         \* <<phys_addr, offset, data>> of the current MDIC transaction
    reg_ctrl_ext,   \* CTRL_EXT @0x18  (word)
    reg_eicr,       \* EICR   @0x1580 (word of latched causes; a read clears it)
    irq_log,        \* <<operation, its MMIO side effects>> of each interrupt
                    \* operation called directly, in order
    lm_word,        \* the CTRL_EXT word the latest link_mode() read
    lm_out,         \* <<what the latest link_mode() returned>>, <<>> before
    cv_in,          \* <<vid, did>> handed to the latest check_vid_did
    cv_out          \* <<what it returned>>, <<>> before

vars == <<reg_ctrl, reg_status, reg_mdic, reg_eimc, reg_eims, io, pc, calls,
          rets, ctrl_reads, ctrl_normal, open_result, opens, wf_pc, wf_try_count, wf_i, wf_evals,
          wf_trues, wf_last, wf_sleeps, wf_result, m_pc, m_op, m_polls, m_last,
          m_early, m_result, m_data, mac_status, status_word, st_io, st_at,
          m_args, reg_ctrl_ext, reg_eicr, irq_log, lm_word, lm_out, cv_in,
          cv_out>>

regVars  == <<reg_ctrl, reg_status, reg_mdic, reg_eimc, reg_eims>>
openVars == <<pc, calls, rets, ctrl_reads, ctrl_normal, open_result, opens>>
wfVars   == <<wf_pc, wf_try_count, wf_i, wf_evals, wf_trues, wf_last,
              wf_sleeps, wf_result>>
mdicVars == <<m_pc, m_op, m_polls, m_last, m_early, m_result, m_data, m_args>>
statusVars == <<mac_status, status_word, st_io, st_at>>
auxVars  == <<reg_ctrl_ext, reg_eicr, irq_log, lm_word, lm_out, cv_in, cv_out>>

(***************************************************************************)
(* Bounds of the model.                                                    *)
(***************************************************************************)
\* open() invocations per behaviour
MaxOpens == 2
\* largest Some(n) handed to wait_for by the generic caller
MaxTry == 4
\* width of usize in bits; usize::MAX = 2^UsizeBits - 1.  Real targets have
\* 16, 32 or 64; the model keeps the width but narrows it so that the end of
\* the range is reached.
UsizeBits == 10
\* direct calls of the interrupt operations per behaviour
MaxIrqCalls == 3

(***************************************************************************)
(* Register words and tock-registers field arithmetic.                     *)
(***************************************************************************)
RECURSIVE Pow2(_)
Pow2(n) == IF n = 0 THEN 1 ELSE 2 * Pow2(n - 1)

\* u32::MAX
U32_MAX == 0..31

\* usize::MAX
USIZE_MAX == Pow2(UsizeBits) - 1

\* the mask of a field, shifted into place
FieldMask(off, n) == off..(off + n - 1)

\* LocalRegisterCopy::read(field): (word & (mask << shift)) >> shift
RECURSIVE FieldRead(_, _, _)
FieldRead(w, off, n) ==
    IF n = 0 THEN 0
    ELSE (IF off + n - 1 \in w THEN Pow2(n - 1) ELSE 0) + FieldRead(w, off, n - 1)

\* a variant whose mask is one bit too wide
FieldVal_Wide(off, n, x) ==
    [mask  |-> FieldMask(off, n),
     value |-> {i \in FieldMask(off, n + 1) : (x \div Pow2(i - off)) % 2 = 1}]

\* Field::val(x): the FieldValue (x & mask) << shift
FieldVal(off, n, x) ==
    [mask  |-> FieldMask(off, n),
     value |-> {i \in FieldMask(off, n) : (x \div Pow2(i - off)) % 2 = 1}]

\* FieldValue + FieldValue
FieldAdd(a, b) == [mask |-> a.mask \cup b.mask, value |-> a.value \cup b.value]

\* is_set(field): word & (mask << shift) != 0
IsSet(w, off, n) == (w \cap FieldMask(off, n)) # {}

\* ReadWrite::modify(fv): set((get() & !mask) | value)
Modify(w, fv) == (w \ fv.mask) \cup fv.value

\* ReadWrite::write(fv): set(value)
WriteVal(fv) == fv.value

\* matches_any(&[fv]): get() & mask == value
MatchesAny(w, fv) == (w \cap fv.mask) = fv.value

(***************************************************************************)
(* Bit fields (register_bitfields! in mac.rs).                             *)
(***************************************************************************)
CTRL_SPEED_OFFSET == 8
CTRL_RST_OFFSET == 26
CTRL_PHY_RST_OFFSET == 31
CTRL_RST_Normal == FieldVal(CTRL_RST_OFFSET, 1, 0)
CTRL_RST_Reset == FieldVal(CTRL_RST_OFFSET, 1, 1)
CTRL_PHY_RST_SET == FieldVal(CTRL_PHY_RST_OFFSET, 1, 1)

(***************************************************************************)
(* DError and results.  A Result is the string "Ok" or the error; "None"   *)
(* stands for "not returned yet".                                          *)
(***************************************************************************)
MdicError == "Unknown(MDIC read error)"
DErrors == {"Timeout", "NoMemory", "InvalidParameter", MdicError, "Unknown(phy)"}

(***************************************************************************)
(* osal.rs: wait_for                                                       *)
(***************************************************************************)
\* a variant with an inclusive range, 0..=limit
WaitForLimit_OffByOne(try_count) ==
    IF try_count = <<>> THEN USIZE_MAX ELSE try_count[1] + 1

\* try_count.unwrap_or(usize::MAX): the bound of the for-loop's range
WaitForLimit(try_count) ==
    IF try_count = <<>> THEN USIZE_MAX ELSE try_count[1]

\* wait_for is entered with the given try_count
wait_for_enter(try_count) ==
    /\ wf_pc' = "loop"
    /\ wf_try_count' = try_count
    /\ wf_i' = 0
    /\ wf_evals' = 0
    /\ wf_trues' = 0
    /\ wf_last' = FALSE
    /\ wf_sleeps' = 0
    /\ wf_result' = "None"

\* one pass of `for _ in 0..limit { if f() { return Ok(()) } ...`, f yielding b
wait_for_eval(b) ==
    /\ wf_pc = "loop"
    /\ wf_i < WaitForLimit(wf_try_count)
    /\ wf_i' = wf_i + 1
    /\ wf_evals' = wf_evals + 1
    /\ wf_trues' = wf_trues + (IF b THEN 1 ELSE 0)
    /\ wf_last' = b
    /\ wf_pc' = IF b THEN "done" ELSE "sleep"
    /\ wf_result' = IF b THEN "Ok" ELSE wf_result
    /\ UNCHANGED <<wf_try_count, wf_sleeps>>

\* a variant that goes on to the next attempt without sleeping
wait_for_sleep_Skipped ==
    /\ wf_pc = "sleep"
    /\ wf_pc' = "loop"
    /\ UNCHANGED <<wf_try_count, wf_i, wf_evals, wf_trues, wf_last, wf_result,
                   wf_sleeps>>

\* kernel::sleep(interval) after a failed attempt
wait_for_sleep ==
    /\ wf_pc = "sleep"
    /\ wf_sleeps' = wf_sleeps + 1
    /\ wf_pc' = "loop"
    /\ UNCHANGED <<wf_try_count, wf_i, wf_evals, wf_trues, wf_last, wf_result>>

\* the range is exhausted: Err(DError::Timeout)
wait_for_timeout ==
    /\ wf_pc = "loop"
    /\ wf_i >= WaitForLimit(wf_try_count)
    /\ wf_pc' = "done"
    /\ wf_result' = "Timeout"
    /\ UNCHANGED <<wf_try_count, wf_i, wf_evals, wf_trues, wf_last, wf_sleeps>>

(***************************************************************************)
(* mac.rs: interrupts and reset                                            *)
(***************************************************************************)
\* a variant that reads the causes before it masks them
clear_interrupts_io_ReadFirst == << <<"read", "EICR", {}>>, <<"write", "EIMC", U32_MAX>> >>

\* clear_interrupts: eimc.set(u32::MAX); eicr.get()
clear_interrupts_io == << <<"write", "EIMC", U32_MAX>>, <<"read", "EICR", {}>> >>

\* disable_interrupts: eimc.set(u32::MAX); self.clear_interrupts()
disable_interrupts_io == << <<"write", "EIMC", U32_MAX>> >> \o clear_interrupts_io

\* a variant that stores to the register disable_interrupts stores to
enable_interrupts_io_AsDisable == << <<"write", "EIMC", U32_MAX>> >>

\* enable_interrupts: eims.set(u32::MAX)
enable_interrupts_io == << <<"write", "EIMS", U32_MAX>> >>

\* the last word an operation's side effects store to register r, or old when
\* they store none
LastWrite(evs, r, old) ==
    LET ks == {k \in 1..Len(evs) : evs[k][1] = "write" /\ evs[k][2] = r}
    IN  IF ks = {} THEN old
        ELSE evs[CHOOSE k \in ks : \A j \in ks : j <= k][3]

\* EICR after a read by the driver: the latched causes are cleared
EicrAfterRead(evs, old) ==
    IF \E k \in 1..Len(evs) : evs[k][1] = "read" /\ evs[k][2] = "EICR" THEN {} ELSE old

\* a caller invokes one of the interrupt operations of the MAC directly
irq_call(op, evs) ==
    /\ pc = "idle"
    /\ Len(irq_log) < MaxIrqCalls
    /\ irq_log' = Append(irq_log, <<op, evs>>)
    /\ io' = evs
    /\ reg_eimc' = LastWrite(evs, "EIMC", reg_eimc)
    /\ reg_eims' = LastWrite(evs, "EIMS", reg_eims)
    /\ reg_eicr' = EicrAfterRead(evs, reg_eicr)
    /\ UNCHANGED <<reg_ctrl, reg_status, reg_mdic, reg_ctrl_ext, openVars, wfVars,
                   mdicVars, statusVars, lm_word, lm_out, cv_in, cv_out>>

disable_interrupts_call == irq_call("disable_interrupts", disable_interrupts_io)

enable_interrupts_call == irq_call("enable_interrupts", enable_interrupts_io)

clear_interrupts_call == irq_call("clear_interrupts", clear_interrupts_io)

\* interrupt causes the device may latch
EicrCauses == { {0}, {1, 31} }

\* the device latches interrupt causes in EICR
hw_irq_latch ==
    /\ \E c \in EicrCauses : reg_eicr' = reg_eicr \cup c /\ reg_eicr' # reg_eicr
    /\ UNCHANGED <<regVars, reg_ctrl_ext, irq_log, io, openVars, wfVars, mdicVars,
                   statusVars, lm_word, lm_out, cv_in, cv_out>>

\* a variant that gives up one attempt early
ResetTryCount_Short == 1000 - 1

\* number of attempts reset() hands to wait_for: Some(1000)

ResetTryCount == 1000

\* a variant that stores the two bits alone: write() in place of modify()
ResetCtrlWord_Overwrite(w) == WriteVal(FieldAdd(CTRL_RST_Reset, CTRL_PHY_RST_SET))

\* the word reset() stores to CTRL: modify(CTRL::RST::Reset + CTRL::PHY_RST::SET)
ResetCtrlWord(w) == Modify(w, FieldAdd(CTRL_RST_Reset, CTRL_PHY_RST_SET))

\* the predicate reset() polls: ctrl.matches_any(&[CTRL::RST::Normal])
ResetDone(w) == MatchesAny(w, CTRL_RST_Normal)

(***************************************************************************)
(* lib.rs: Igb::open                                                       *)
(***************************************************************************)
\* the `?` operator: where open() continues after a step that returned r
AfterStep(r, next) == IF r = "Ok" THEN next ELSE "returned"

\* a variant that discards reset()'s result
AfterReset_Ignore(r) == "disable2"

\* line 50, `self.mac.borrow_mut().reset()?`: where open() continues after reset()
\* returned r
AfterReset(r) == AfterStep(r, "disable2")

\* a variant that maps every error to one variant
StepError_Masked(e) == "InvalidParameter"

\* the `?` operator: the error open() returns for a step's Err(e)
StepError(e) == e

\* what the PHY driver's operations may return
PhyResults == {"Ok"} \cup DErrors

\* a variant that remembers a reset that succeeded and resumes behind it
open_call_Resume ==
    /\ pc \in {"idle", "returned"}
    /\ opens < MaxOpens
    /\ opens' = opens + 1
    /\ pc' = IF pc = "returned" /\ open_result # "Ok" /\ rets # <<>>
                 /\ rets[1] = <<"reset", "Ok">>
             THEN "power_up" ELSE "disable1"
    /\ calls' = <<>>
    /\ io' = <<>>
    /\ rets' = <<>>
    /\ ctrl_reads' = 0
    /\ ctrl_normal' = 0
    /\ open_result' = "None"
    /\ UNCHANGED <<regVars, wfVars, mdicVars, statusVars, auxVars>>

\* the caller invokes open()
open_call ==
    /\ pc \in {"idle", "returned"}
    /\ opens < MaxOpens
    /\ opens' = opens + 1
    /\ pc' = "disable1"
    /\ calls' = <<>>
    /\ io' = <<>>
    /\ rets' = <<>>
    /\ ctrl_reads' = 0
    /\ ctrl_normal' = 0
    /\ open_result' = "None"
    /\ UNCHANGED <<regVars, wfVars, mdicVars, statusVars, auxVars>>

\* a variant whose second occurrence calls enable_interrupts()
open_disable_interrupts_EnableAfterReset ==
    /\ pc \in {"disable1", "disable2"}
    /\ reg_eimc' = IF pc = "disable1" THEN U32_MAX ELSE reg_eimc
    /\ reg_eims' = IF pc = "disable1" THEN reg_eims ELSE U32_MAX
    /\ io' = io \o (IF pc = "disable1" THEN disable_interrupts_io
                                       ELSE enable_interrupts_io)
    /\ calls' = Append(calls, "disable_interrupts")
    /\ pc' = IF pc = "disable1" THEN "reset" ELSE "power_up"
    /\ UNCHANGED <<reg_ctrl, reg_status, reg_mdic, rets, ctrl_reads,
                   ctrl_normal, open_result, opens, wfVars, mdicVars, statusVars,
                   auxVars>>

\* self.mac.borrow_mut().disable_interrupts() (both occurrences)
open_disable_interrupts ==
    /\ pc \in {"disable1", "disable2"}
    /\ reg_eimc' = U32_MAX
    /\ io' = io \o disable_interrupts_io
    /\ calls' = Append(calls, "disable_interrupts")
    /\ pc' = IF pc = "disable1" THEN "reset" ELSE "power_up"
    /\ UNCHANGED <<reg_ctrl, reg_status, reg_mdic, reg_eims, rets, ctrl_reads,
                   ctrl_normal, open_result, opens, wfVars, mdicVars, statusVars, auxVars>>

\* reset(): the CTRL store, then wait_for(.., 1 ms, Some(1000)) is entered
open_reset_start ==
    /\ pc = "reset"
    /\ reg_ctrl' = ResetCtrlWord(reg_ctrl)
    /\ io' = Append(io, <<"write", "CTRL", ResetCtrlWord(reg_ctrl)>>)
    /\ calls' = Append(calls, "reset")
    /\ wait_for_enter(<<ResetTryCount>>)
    /\ pc' = "reset_wait"
    /\ UNCHANGED <<reg_status, reg_mdic, reg_eimc, reg_eims, rets, ctrl_reads,
                   ctrl_normal, open_result, opens, mdicVars, statusVars, auxVars>>

\* reset(): one poll of CTRL by wait_for's predicate
open_reset_poll ==
    /\ pc = "reset_wait"
    /\ wait_for_eval(ResetDone(reg_ctrl))
    /\ ctrl_reads' = ctrl_reads + 1
    /\ ctrl_normal' = ctrl_normal + (IF CTRL_RST_OFFSET \in reg_ctrl THEN 0 ELSE 1)
    /\ UNCHANGED <<regVars, io, pc, calls, rets, open_result, opens, mdicVars,
                   statusVars, auxVars>>

\* reset(): the sleep between two polls
open_reset_sleep ==
    /\ pc = "reset_wait"
    /\ wait_for_sleep
    /\ UNCHANGED <<regVars, io, openVars, mdicVars, statusVars, auxVars>>

\* reset(): the attempts are used up
open_reset_timeout ==
    /\ pc = "reset_wait"
    /\ wait_for_timeout
    /\ UNCHANGED <<regVars, io, openVars, mdicVars, statusVars, auxVars>>

\* self.mac.borrow_mut().reset()? : reset() has returned wait_for's result
open_reset_return ==
    /\ pc = "reset_wait"
    /\ wf_pc = "done"
    /\ wf_pc' = "idle"
    /\ rets' = Append(rets, <<"reset", wf_result>>)
    /\ pc' = AfterReset(wf_result)
    /\ open_result' = IF wf_result = "Ok" THEN open_result ELSE StepError(wf_result)
    /\ UNCHANGED <<regVars, io, calls, ctrl_reads, ctrl_normal, opens, wf_try_count, wf_i, wf_evals,
                   wf_trues, wf_last, wf_sleeps, wf_result, mdicVars, statusVars, auxVars>>

\* a fallible PHY step of open(): `self.phy.<name>()?` returning r
open_phy_step(at, name, next, r) ==
    /\ pc = at
    /\ calls' = Append(calls, name)
    /\ rets' = Append(rets, <<name, r>>)
    /\ pc' = AfterStep(r, next)
    /\ open_result' = IF r = "Ok" THEN open_result ELSE StepError(r)
    /\ UNCHANGED <<regVars, io, ctrl_reads, ctrl_normal, opens, wfVars, mdicVars,
                   statusVars, auxVars>>

\* lib.rs line 55: self.phy.power_up()?
open_power_up ==
    \E r \in PhyResults : open_phy_step("power_up", "power_up", "setup_power_up", r)

\* setup_phy_and_the_link, line 65: self.phy.power_up()?
open_setup_power_up ==
    \E r \in PhyResults :
        open_phy_step("setup_power_up", "power_up", "setup_enable_an", r)

\* setup_phy_and_the_link, line 66: self.phy.enable_auto_negotiation()?
open_setup_enable_auto_negotiation ==
    \E r \in PhyResults :
        open_phy_step("setup_enable_an", "enable_auto_negotiation", "wait_an", r)

\* line 59: self.phy.wait_for_auto_negotiation_complete()?
open_wait_for_auto_negotiation_complete ==
    \E r \in PhyResults :
        open_phy_step("wait_an", "wait_for_auto_negotiation_complete", "ok", r)

\* line 61: Ok(())
open_ok ==
    /\ pc = "ok"
    /\ pc' = "returned"
    /\ open_result' = "Ok"
    /\ UNCHANGED <<regVars, io, calls, rets, ctrl_reads, ctrl_normal, opens, wfVars,
                   mdicVars, statusVars, auxVars>>

(***************************************************************************)
(* The device: CTRL.RST is self-clearing.                                  *)
(***************************************************************************)
hw_reset_complete ==
    /\ CTRL_RST_OFFSET \in reg_ctrl
    /\ reg_ctrl' = reg_ctrl \ {CTRL_RST_OFFSET}
    /\ UNCHANGED <<reg_status, reg_mdic, reg_eimc, reg_eims, io, openVars,
                   wfVars, mdicVars, statusVars, auxVars>>

(***************************************************************************)
(* osal.rs: wait_for called with an arbitrary predicate.                   *)
(***************************************************************************)
\* the try_count arguments of the callers: None, small counts, and the
\* Some(1000) of reset()
TryCounts == {<<>>} \cup {<<n>> : n \in 0..MaxTry} \cup {<<ResetTryCount>>}

\* wait_for(f, interval, try_count) is called
wait_for_call ==
    /\ pc = "idle"
    /\ wf_pc \in {"idle", "done"}
    /\ \E tc \in TryCounts : wait_for_enter(tc)
    /\ UNCHANGED <<regVars, io, openVars, mdicVars, statusVars, auxVars>>

\* one pass of the loop; the predicate yields either value
wait_for_attempt ==
    /\ pc = "idle"
    /\ \E b \in BOOLEAN : wait_for_eval(b)
    /\ UNCHANGED <<regVars, io, openVars, mdicVars, statusVars, auxVars>>

\* the sleep after a failed attempt
wait_for_interval ==
    /\ pc = "idle"
    /\ wait_for_sleep
    /\ UNCHANGED <<regVars, io, openVars, mdicVars, statusVars, auxVars>>

\* the attempts are used up
wait_for_exhausted ==
    /\ pc = "idle"
    /\ wait_for_timeout
    /\ UNCHANGED <<regVars, io, openVars, mdicVars, statusVars, auxVars>>

(***************************************************************************)
(* mac.rs: the MDIO transaction over MDIC                                  *)
(***************************************************************************)
MDIC_DATA_OFFSET == 0
MDIC_DATA_NUMBITS == 16
MDIC_REGADDR_OFFSET == 16
MDIC_REGADDR_NUMBITS == 5
MDIC_PHY_ADDR_OFFSET == 21
MDIC_PHY_ADDR_NUMBITS == 5
MDIC_OP_OFFSET == 26
MDIC_OP_NUMBITS == 2
MDIC_OP_Write == 1
MDIC_OP_Read == 2
MDIC_READY_OFFSET == 28
MDIC_E_OFFSET == 30

\* polls the model counts exactly; the count saturates there, the loop goes on
MaxPolls == 3

\* the word write_mdic stores: REGADDR.val(offset) + PHY_ADDR.val(phys_addr)
\*                             + DATA.val(data) + OP::Write
WriteMdicWord(phys_addr, offset, data) ==
    WriteVal(FieldAdd(FieldAdd(FieldVal(MDIC_REGADDR_OFFSET, MDIC_REGADDR_NUMBITS, offset),
                               FieldVal(MDIC_PHY_ADDR_OFFSET, MDIC_PHY_ADDR_NUMBITS, phys_addr)),
                      FieldAdd(FieldVal(MDIC_DATA_OFFSET, MDIC_DATA_NUMBITS, data),
                               FieldVal(MDIC_OP_OFFSET, MDIC_OP_NUMBITS, MDIC_OP_Write))))

\* the word read_mdic stores: REGADDR.val(offset) + PHY_ADDR.val(phys_addr) + OP::Read
ReadMdicWord(phys_addr, offset) ==
    WriteVal(FieldAdd(FieldAdd(FieldVal(MDIC_REGADDR_OFFSET, MDIC_REGADDR_NUMBITS, offset),
                               FieldVal(MDIC_PHY_ADDR_OFFSET, MDIC_PHY_ADDR_NUMBITS, phys_addr)),
                      FieldVal(MDIC_OP_OFFSET, MDIC_OP_NUMBITS, MDIC_OP_Read)))

\* a variant that tests E before READY
MdicPollOutcome_ErrorFirst(w) ==
    IF IsSet(w, MDIC_E_OFFSET, 1) THEN MdicError
    ELSE IF IsSet(w, MDIC_READY_OFFSET, 1) THEN "Ok"
    ELSE "None"

\* a variant that never tests E
MdicPollOutcome_IgnoreE(w) ==
    IF IsSet(w, MDIC_READY_OFFSET, 1) THEN "Ok" ELSE "None"

\* the body of both polling loops, for the extracted word w: "Ok" when READY is
\* set, else the error when E is set, else "None" (poll again)
MdicPollOutcome(w) ==
    IF IsSet(w, MDIC_READY_OFFSET, 1) THEN "Ok"
    ELSE IF IsSet(w, MDIC_E_OFFSET, 1) THEN MdicError
    ELSE "None"

\* a variant that reads the 16 bits above the data field
MdicReadData_Shifted(w) == FieldRead(w, MDIC_REGADDR_OFFSET, MDIC_DATA_NUMBITS)

\* read_mdic's value: mdic.read(MDIC::DATA) as u16
MdicReadData(w) == FieldRead(w, MDIC_DATA_OFFSET, MDIC_DATA_NUMBITS)

\* arguments the callers pass (addresses wider than 5 bits included)
PhysAddrs == {1, 2, 33}
RegOffsets == {0, 34}
MdicDatas == {0, 43981, 65535}

\* write_mdic / read_mdic is called: the command word is stored to MDIC
mdic_call(op, args, word) ==
    /\ pc = "idle"
    /\ m_pc \in {"idle", "done"}
    /\ reg_mdic' = word
    /\ io' = << <<"write", "MDIC", word>> >>
    /\ m_pc' = "barrier"
    /\ m_op' = op
    /\ m_polls' = 0
    /\ m_last' = {}
    /\ m_early' = FALSE
    /\ m_result' = "None"
    /\ m_data' = 0
    /\ m_args' = args
    /\ UNCHANGED <<reg_ctrl, reg_status, reg_eimc, reg_eims, openVars, wfVars,
                   statusVars, auxVars>>

write_mdic_call ==
    \E a \in PhysAddrs, o \in RegOffsets, d \in MdicDatas :
        mdic_call("write", <<a, o, d>>, WriteMdicWord(a, o, d))

read_mdic_call ==
    \E a \in PhysAddrs, o \in RegOffsets :
        mdic_call("read", <<a, o, 0>>, ReadMdicWord(a, o))

\* a variant without the barrier: polling starts right after the store
mdic_barrier_Skipped ==
    /\ m_pc = "barrier"
    /\ m_pc' = "poll"
    /\ UNCHANGED <<regVars, io, openVars, wfVars, m_op, m_polls, m_last, m_early,
                   m_result, m_data, m_args, statusVars, auxVars>>

\* mb()
mdic_barrier ==
    /\ m_pc = "barrier"
    /\ io' = Append(io, <<"mb", "", {}>>)
    /\ m_pc' = "poll"
    /\ UNCHANGED <<regVars, openVars, wfVars, m_op, m_polls, m_last, m_early,
                   m_result, m_data, m_args, statusVars, auxVars>>

\* one pass of `loop { let mdic = self.reg().mdic.extract(); ... }`
mdic_poll ==
    /\ m_pc = "poll"
    /\ m_polls' = IF m_polls < MaxPolls THEN m_polls + 1 ELSE m_polls
    /\ m_last' = reg_mdic
    /\ m_early' = (m_early \/ (m_polls > 0 /\ (IsSet(m_last, MDIC_READY_OFFSET, 1)
                                               \/ IsSet(m_last, MDIC_E_OFFSET, 1))))
    /\ m_result' = MdicPollOutcome(reg_mdic)
    /\ m_pc' = IF MdicPollOutcome(reg_mdic) = "None" THEN "poll" ELSE "done"
    /\ m_data' = IF m_op = "read" /\ MdicPollOutcome(reg_mdic) = "Ok"
                 THEN MdicReadData(reg_mdic) ELSE m_data
    /\ UNCHANGED <<regVars, io, openVars, wfVars, m_op, m_args, statusVars,
                   auxVars>>

\* the device ends the transaction in flight: it sets READY, E or both, and
\* with READY on a read the data it fetched
hw_mdic_complete ==
    /\ m_pc \in {"barrier", "poll"}
    /\ MDIC_READY_OFFSET \notin reg_mdic
    /\ MDIC_E_OFFSET \notin reg_mdic
    /\ \E flags \in (SUBSET {MDIC_READY_OFFSET, MDIC_E_OFFSET}) \ {{}}, d \in MdicDatas :
          /\ reg_mdic' =
                IF m_op = "read" /\ MDIC_READY_OFFSET \in flags
                THEN Modify(reg_mdic, FieldVal(MDIC_DATA_OFFSET, MDIC_DATA_NUMBITS, d))
                         \cup flags
                ELSE reg_mdic \cup flags
    /\ UNCHANGED <<reg_ctrl, reg_status, reg_eimc, reg_eims, io, openVars, wfVars,
                   mdicVars, statusVars, auxVars>>

\* the device raises the other flag after it has ended the transaction
hw_mdic_late_flag ==
    /\ m_pc \in {"barrier", "poll"}
    /\ \/ /\ MDIC_E_OFFSET \in reg_mdic
          /\ MDIC_READY_OFFSET \notin reg_mdic
          /\ reg_mdic' = reg_mdic \cup {MDIC_READY_OFFSET}
       \/ /\ MDIC_READY_OFFSET \in reg_mdic
          /\ MDIC_E_OFFSET \notin reg_mdic
          /\ reg_mdic' = reg_mdic \cup {MDIC_E_OFFSET}
    /\ UNCHANGED <<reg_ctrl, reg_status, reg_eimc, reg_eims, io, openVars, wfVars,
                   mdicVars, statusVars, auxVars>>

\* the device shifts bits through the data field while a read is in flight
hw_mdic_shift ==
    /\ m_pc \in {"barrier", "poll"}
    /\ m_op = "read"
    /\ ~IsSet(reg_mdic, MDIC_READY_OFFSET, 1)
    /\ \E d \in MdicDatas :
          /\ reg_mdic' = Modify(reg_mdic, FieldVal(MDIC_DATA_OFFSET, MDIC_DATA_NUMBITS, d))
          /\ reg_mdic' # reg_mdic
    /\ UNCHANGED <<reg_ctrl, reg_status, reg_eimc, reg_eims, io, openVars, wfVars,
                   mdicVars, statusVars, auxVars>>

(***************************************************************************)
(* mac.rs: status()                                                        *)
(***************************************************************************)
STATUS_FD_OFFSET == 0
STATUS_LU_OFFSET == 1
\* a variant with the offset SPEED has in CTRL
STATUS_SPEED_OFFSET_AsInCtrl == CTRL_SPEED_OFFSET
STATUS_SPEED_OFFSET == 6
STATUS_SPEED_NUMBITS == 2
STATUS_PHYRA_OFFSET == 10

\* read_as_enum(STATUS::SPEED): the variant whose value the field holds, if any
StatusSpeedEnum(w) ==
    LET v == FieldRead(w, STATUS_SPEED_OFFSET, STATUS_SPEED_NUMBITS)
    IN  CASE v = 0 -> <<"Speed10">>
          [] v = 1 -> <<"Speed100">>
          [] v = 2 -> <<"Speed1000">>
          [] OTHER -> <<>>

\* Mac::status, for the extracted STATUS word w
status(w) ==
    [full_duplex |-> IsSet(w, STATUS_FD_OFFSET, 1),
     link_up |-> IsSet(w, STATUS_LU_OFFSET, 1),
     speed |-> CASE StatusSpeedEnum(w) = <<"Speed1000">> -> "Mb1000"
                 [] StatusSpeedEnum(w) = <<"Speed100">> -> "Mb100"
                 [] OTHER -> "Mb10",
     phy_reset_asserted |-> IsSet(w, STATUS_PHYRA_OFFSET, 1)]

\* STATUS words the device may present: every combination of the decoded bits,
\* alone and among set neighbours
StatusWords ==
    {decoded \cup noise : decoded \in SUBSET {0, 1, 6, 7, 10},
                          noise \in {{}, {2, 5, 8, 9, 11, 31}}}

\* where the caller of open() stands: before any open(), inside one, or
\* after one has returned
CallerPhase ==
    CASE pc = "idle" -> <<"before open">>
      [] pc = "returned" -> <<"after open", open_result>>
      [] OTHER -> <<"inside open">>

\* a variant that keeps what the first call decoded
status_call_Cached ==
    /\ status_word' = reg_status
    /\ mac_status' = IF mac_status = <<>> THEN <<status(reg_status)>> ELSE mac_status
    /\ st_io' = << <<"read", "STATUS", reg_status>> >>
    /\ st_at' = CallerPhase
    /\ UNCHANGED <<regVars, io, openVars, wfVars, mdicVars, auxVars>>

\* status() is called: `let status = self.reg().status.extract();`, then the
\* fields of the extracted copy are decoded
status_call ==
    /\ status_word' = reg_status
    /\ mac_status' = <<status(reg_status)>>
    /\ st_io' = << <<"read", "STATUS", reg_status>> >>
    /\ st_at' = CallerPhase
    /\ UNCHANGED <<regVars, io, openVars, wfVars, mdicVars, auxVars>>

\* the device changes STATUS
hw_status_change ==
    /\ \E w \in StatusWords : reg_status' = w /\ w # reg_status
    /\ UNCHANGED <<reg_ctrl, reg_mdic, reg_eimc, reg_eims, io, openVars, wfVars,
                   mdicVars, statusVars, auxVars>>

(***************************************************************************)
(* mac.rs: link_mode()                                                     *)
(***************************************************************************)
CTRL_EXT_LINK_MODE_OFFSET == 22
CTRL_EXT_LINK_MODE_NUMBITS == 2

\* a variant that numbers the variants 0, 1, 2
CtrlExtLinkModeEnum_Dense(w) ==
    LET v == FieldRead(w, CTRL_EXT_LINK_MODE_OFFSET, CTRL_EXT_LINK_MODE_NUMBITS)
    IN  CASE v = 0 -> <<"DircetCooper">>
          [] v = 1 -> <<"SGMII">>
          [] v = 2 -> <<"InternalSerdes">>
          [] OTHER -> <<>>

\* read_as_enum(CTRL_EXT::LINK_MODE): the variant whose value the field
\* holds, if any
CtrlExtLinkModeEnum(w) ==
    LET v == FieldRead(w, CTRL_EXT_LINK_MODE_OFFSET, CTRL_EXT_LINK_MODE_NUMBITS)
    IN  CASE v = 0 -> <<"DircetCooper">>
          [] v = 2 -> <<"SGMII">>
          [] v = 3 -> <<"InternalSerdes">>
          [] OTHER -> <<>>

\* Mac::link_mode, for the CTRL_EXT word w: <<m>> is Some(m), <<>> is None
link_mode(w) ==
    CASE CtrlExtLinkModeEnum(w) = <<"DircetCooper">> -> <<"DirectCooper">>
      [] CtrlExtLinkModeEnum(w) = <<"SGMII">> -> <<"Sgmii">>
      [] CtrlExtLinkModeEnum(w) = <<"InternalSerdes">> -> <<"InternalSerdes">>
      [] OTHER -> <<>>

\* CTRL_EXT words the device may hold: every value of LINK_MODE, alone and
\* among set neighbours
CtrlExtWords ==
    {mode \cup noise : mode \in SUBSET {22, 23}, noise \in SUBSET {0, 21, 24, 31}}

\* link_mode() is called
link_mode_call ==
    /\ lm_word' = reg_ctrl_ext
    /\ lm_out' = <<link_mode(reg_ctrl_ext)>>
    /\ UNCHANGED <<regVars, io, openVars, wfVars, mdicVars, statusVars,
                   reg_ctrl_ext, reg_eicr, irq_log, cv_in, cv_out>>

(***************************************************************************)
(* lib.rs: Igb::check_vid_did                                              *)
(***************************************************************************)
\* the value of the four-digit hexadecimal literal 0xabcd
Hex4(a, b, c, d) == ((a * 16 + b) * 16 + c) * 16 + d

\* slice::contains
Contains(seq, x) == \E i \in 1..Len(seq) : seq[i] = x

\* a variant that accepts when either half matches
check_vid_did_Either(vid, did) ==
    vid = Hex4(8, 0, 8, 6) \/ Contains(<<Hex4(1, 0, 12, 9), Hex4(1, 5, 3, 3)>>, did)

\* vid == 0x8086 && [0x10C9, 0x1533].contains(&did)
check_vid_did(vid, did) ==
    vid = Hex4(8, 0, 8, 6) /\ Contains(<<Hex4(1, 0, 12, 9), Hex4(1, 5, 3, 3)>>, did)

\* u16 vendor and device ids handed in: the accepted ones, their neighbours,
\* each other's values and the ends of the range
Vids == {0, 1, 4297, 5427, 32901, 32902, 32903, 32774, 34438, 65535}
Dids == {0, 1, 4296, 4297, 4298, 5426, 5427, 5428, 32902, 4233, 65535}

\* check_vid_did is called
check_vid_did_call ==
    /\ \E vid \in Vids, did \in Dids :
          /\ cv_in' = <<vid, did>>
          /\ cv_out' = <<check_vid_did(vid, did)>>
    /\ UNCHANGED <<regVars, io, openVars, wfVars, mdicVars, statusVars,
                   reg_ctrl_ext, reg_eicr, irq_log, lm_word, lm_out>>

\* STATUS words the device presents around a bring-up: link down, and link
\* up at 1000 Mb/s full duplex
LinkStatusWords == { {}, {STATUS_FD_OFFSET, STATUS_LU_OFFSET, 7} }

\* the link comes up or goes down
hw_link_change ==
    /\ \E w \in LinkStatusWords : reg_status' = w /\ w # reg_status
    /\ UNCHANGED <<reg_ctrl, reg_mdic, reg_eimc, reg_eims, io, openVars, wfVars,
                   mdicVars, statusVars, auxVars>>

(***************************************************************************)
(* Initial states.                                                         *)
(***************************************************************************)
\* CTRL words the device may hold when the driver is constructed
CtrlWords == { {}, {0, 6}, {CTRL_RST_OFFSET}, {CTRL_PHY_RST_OFFSET}, {0, 8, 26, 27}, U32_MAX }

InitIdle ==
    /\ reg_mdic = {}
    /\ reg_eimc = {}
    /\ reg_eims = {}
    /\ io = <<>>
    /\ pc = "idle"
    /\ calls = <<>>
    /\ rets = <<>>
    /\ ctrl_reads = 0
    /\ ctrl_normal = 0
    /\ open_result = "None"
    /\ opens = 0
    /\ wf_pc = "idle"
    /\ wf_try_count = <<>>
    /\ wf_i = 0
    /\ wf_evals = 0
    /\ wf_trues = 0
    /\ wf_last = FALSE
    /\ wf_sleeps = 0
    /\ wf_result = "None"
    /\ m_pc = "idle"
    /\ m_op = "none"
    /\ m_polls = 0
    /\ m_last = {}
    /\ m_early = FALSE
    /\ m_result = "None"
    /\ m_data = 0
    /\ mac_status = <<>>
    /\ status_word = {}
    /\ st_io = <<>>
    /\ st_at = <<>>
    /\ m_args = <<>>
    /\ reg_eicr = {}
    /\ irq_log = <<>>
    /\ lm_word = {}
    /\ lm_out = <<>>
    /\ cv_in = <<>>
    /\ cv_out = <<>>

\* Igb::new touches no hardware
Init ==
    /\ reg_ctrl \in CtrlWords
    /\ reg_status = {}
    /\ reg_ctrl_ext = {}
    /\ InitIdle

Next ==
    \/ open_call
    \/ open_disable_interrupts
    \/ open_reset_start
    \/ open_reset_poll
    \/ open_reset_sleep
    \/ open_reset_timeout
    \/ open_reset_return
    \/ open_power_up
    \/ open_setup_power_up
    \/ open_setup_enable_auto_negotiation
    \/ open_wait_for_auto_negotiation_complete
    \/ open_ok
    \/ hw_reset_complete

Spec == Init /\ [][Next]_vars

(***************************************************************************)
(* wait_for driven by a caller with an arbitrary predicate.                *)
(***************************************************************************)
InitWaitFor ==
    /\ reg_ctrl = {}
    /\ reg_status = {}
    /\ reg_ctrl_ext = {}
    /\ InitIdle

NextWaitFor ==
    \/ wait_for_call
    \/ wait_for_attempt
    \/ wait_for_interval
    \/ wait_for_exhausted

SpecWaitFor == InitWaitFor /\ [][NextWaitFor]_vars

(***************************************************************************)
(* MDIO transactions against a device that may or may not answer.          *)
(***************************************************************************)
NextMdic ==
    \/ write_mdic_call
    \/ read_mdic_call
    \/ mdic_barrier
    \/ mdic_poll
    \/ hw_mdic_complete
    \/ hw_mdic_late_flag
    \/ hw_mdic_shift

InitMdic ==
    /\ reg_ctrl = {}
    /\ reg_status = {}
    /\ reg_ctrl_ext = {}
    /\ InitIdle

SpecMdic == InitMdic /\ [][NextMdic]_vars

\* The polling loop keeps running, and the device ends every transaction.
SpecMdicFair ==
    /\ SpecMdic
    /\ WF_vars(mdic_barrier)
    /\ WF_vars(mdic_poll)
    /\ WF_vars(hw_mdic_complete)

(***************************************************************************)
(* status() against a device whose STATUS changes.                         *)
(***************************************************************************)
InitStatus ==
    /\ reg_ctrl = {}
    /\ reg_status \in StatusWords
    /\ reg_ctrl_ext = {}
    /\ InitIdle

NextStatus ==
    \/ status_call
    \/ hw_status_change

SpecStatus == InitStatus /\ [][NextStatus]_vars

(***************************************************************************)
(* The interrupt operations of the MAC called in any order.                *)
(***************************************************************************)
InitIrq ==
    /\ reg_ctrl = {}
    /\ reg_status = {}
    /\ reg_ctrl_ext = {}
    /\ InitIdle

NextIrq ==
    \/ disable_interrupts_call
    \/ enable_interrupts_call
    \/ clear_interrupts_call
    \/ hw_irq_latch

SpecIrq == InitIrq /\ [][NextIrq]_vars

(***************************************************************************)
(* link_mode() against a device in any link mode.                          *)
(***************************************************************************)
InitLinkMode ==
    /\ reg_ctrl = {}
    /\ reg_status = {}
    /\ reg_ctrl_ext \in CtrlExtWords
    /\ InitIdle

NextLinkMode == link_mode_call

SpecLinkMode == InitLinkMode /\ [][NextLinkMode]_vars

(***************************************************************************)
(* check_vid_did applied to vendor and device ids.                         *)
(***************************************************************************)
InitVidDid ==
    /\ reg_ctrl = {}
    /\ reg_status = {}
    /\ reg_ctrl_ext = {}
    /\ InitIdle

NextVidDid == check_vid_did_call

SpecVidDid == InitVidDid /\ [][NextVidDid]_vars

(***************************************************************************)
(* The life of one Igb: open() and status() called in any order while the  *)
(* link comes and goes.                                                    *)
(***************************************************************************)
InitLife ==
    /\ reg_ctrl = {}
    /\ reg_status \in LinkStatusWords
    /\ reg_ctrl_ext = {}
    /\ InitIdle

NextLife ==
    \/ Next
    \/ status_call
    \/ hw_link_change

SpecLife == InitLife /\ [][NextLife]_vars

(***************************************************************************)
(* Claims about Igb::open and Mac::reset, checked under Spec.              *)
(***************************************************************************)
\* the fallible PHY steps of open(), in the order of the bring-up sequence
PhyStepRank(name) ==
    CASE name = "power_up" -> 1
      [] name = "enable_auto_negotiation" -> 2
      [] name = "wait_for_auto_negotiation_complete" -> 3
      [] OTHER -> 0

\* C1: an open() that returns Ok has invoked, in this order and nothing else:
\* disable interrupts, MAC reset, disable interrupts, PHY power-up, PHY
\* enable-auto-negotiation, PHY wait-for-auto-negotiation-complete, each once
\* apart from disable interrupts.
C1_OpenInvokesEachStepOnce ==
    (pc = "returned" /\ open_result = "Ok") =>
        calls = <<"disable_interrupts", "reset", "disable_interrupts", "power_up",
                  "enable_auto_negotiation", "wait_for_auto_negotiation_complete">>

\* C2: once the reset step of open() has returned an error, open() has returned
\* that error and has invoked nothing after the reset.
C2_ResetFailureAbortsOpen ==
    \A i \in DOMAIN rets :
        (rets[i][1] = "reset" /\ rets[i][2] # "Ok") =>
            /\ pc = "returned"
            /\ open_result = rets[i][2]
            /\ calls = <<"disable_interrupts", "reset">>
            /\ Len(rets) = i

C2_Witness ==
    /\ pc = "returned"
    /\ rets = << <<"reset", "Timeout">> >>
    /\ open_result = "Timeout"

\* C3: once a PHY step of open() has returned the first error, open() has
\* returned exactly that error, the failing call is the last one made and no
\* step that follows it in the sequence has been invoked.
C3_PhyFailureAbortsOpen ==
    \A i \in DOMAIN rets :
        (/\ PhyStepRank(rets[i][1]) > 0
         /\ rets[i][2] # "Ok"
         /\ \A j \in 1..(i - 1) : rets[j][2] = "Ok") =>
            /\ pc = "returned"
            /\ open_result = rets[i][2]
            /\ Len(rets) = i
            /\ calls[Len(calls)] = rets[i][1]
            /\ \A k \in DOMAIN calls :
                   PhyStepRank(calls[k]) <= PhyStepRank(rets[i][1])

C3_Witness ==
    /\ pc = "returned"
    /\ Len(rets) = 4
    /\ rets[4] = <<"enable_auto_negotiation", MdicError>>
    /\ open_result = MdicError

\* C4: reset() polls CTRL at most 1000 times, returns Ok exactly when one of
\* those polls reads RST as 0, polls no more after the first such read, and
\* returns Timeout only after exactly 1000 polls that all read RST as 1.
C4_ResetPollsAtMost1000 ==
    /\ ctrl_reads <= 1000
    /\ ctrl_normal <= 1
    /\ (pc = "reset_wait" /\ wf_pc \in {"loop", "sleep"}) => ctrl_normal = 0
    /\ (pc = "reset_wait" /\ wf_pc = "done") =>
           /\ wf_result \in {"Ok", "Timeout"}
           /\ wf_result = "Ok" <=> ctrl_normal = 1
           /\ wf_result = "Timeout" <=> (ctrl_reads = 1000 /\ ctrl_normal = 0)
    /\ \A i \in DOMAIN rets :
           rets[i][1] = "reset" =>
               /\ rets[i][2] = "Ok" <=> ctrl_normal = 1
               /\ rets[i][2] = "Timeout" <=> (ctrl_reads = 1000 /\ ctrl_normal = 0)

C4_Witness ==
    /\ pc = "reset_wait"
    /\ wf_pc = "done"
    /\ wf_result = "Timeout"
    /\ ctrl_reads = 1000

(***************************************************************************)
(* Claims about read_mdic and write_mdic, checked under SpecMdic and       *)
(* SpecMdicFair.                                                           *)
(***************************************************************************)
\* C5: a transaction polls on while READY and E read 0 and returns Ok at the
\* first poll that reads READY as 1, no earlier poll having read READY or E as
\* 1; read_mdic returns bits 0-15 of the word that poll read.
C5_MdicReturnsAtFirstReadyPoll ==
    /\ (m_pc = "poll" /\ m_polls >= 1) => MDIC_READY_OFFSET \notin m_last
    /\ m_result = "Ok" =>
           /\ m_pc = "done"
           /\ m_polls >= 1
           /\ MDIC_READY_OFFSET \in m_last
           /\ ~m_early
    /\ (m_result = "Ok" /\ m_op = "read") =>
           \A i \in 0..15 : (i \in m_last) <=> ((m_data \div Pow2(i)) % 2 = 1)
    /\ (m_pc = "done" /\ MDIC_READY_OFFSET \in m_last /\ MDIC_E_OFFSET \notin m_last) =>
           m_result = "Ok"

C5_Witness ==
    /\ m_result = "Ok"
    /\ m_op = "read"
    /\ m_polls = 3
    /\ m_data = 43981
    /\ MDIC_E_OFFSET \notin m_last

\* C6: a transaction fails with Unknown("MDIC read error") at the first poll
\* that reads E as 1 with READY 0, and then has returned neither Ok nor data.
C6_MdicFailsAtFirstErrorPoll ==
    /\ m_result \in {"None", "Ok", MdicError}
    /\ (m_pc = "poll" /\ m_polls >= 1) => MDIC_E_OFFSET \notin m_last
    /\ m_result = MdicError =>
           /\ m_pc = "done"
           /\ m_polls >= 1
           /\ MDIC_E_OFFSET \in m_last
           /\ MDIC_READY_OFFSET \notin m_last
           /\ ~m_early
    /\ (m_pc = "done" /\ MDIC_E_OFFSET \in m_last /\ MDIC_READY_OFFSET \notin m_last) =>
           /\ m_result = "Unknown(MDIC read error)"
           /\ m_data = 0

C6_Witness ==
    /\ m_result = MdicError
    /\ m_op = "read"
    /\ m_polls = 2
    /\ MDIC_READY_OFFSET \notin m_last

\* C7: a transaction never returns Timeout and never sleeps, has returned only
\* if its latest poll read READY or E as 1, and, the device ending every
\* transaction, a polling transaction eventually returns.
C7_MdicPollsUntilReadyOrError ==
    /\ [](/\ m_result # "Timeout"
          /\ wf_sleeps = 0
          /\ m_pc = "done" => (MDIC_READY_OFFSET \in m_last \/ MDIC_E_OFFSET \in m_last))
    /\ (m_pc = "poll") ~> (m_pc = "done")

\* the loop is still polling after every poll the model counts
C7_Witness ==
    /\ m_pc = "poll"
    /\ m_polls = MaxPolls
    /\ m_result = "None"
    /\ MDIC_READY_OFFSET \notin reg_mdic
    /\ MDIC_E_OFFSET \notin reg_mdic

(***************************************************************************)
(* Claims about wait_for, checked under SpecWaitFor.                       *)
(***************************************************************************)
\* C8: wait_for(f, interval, Some(n)) evaluates f at most n times, returns Ok at
\* the first evaluation that yields true and evaluates no more, and returns
\* Timeout exactly when n evaluations all yielded false.
C8_WaitForSomeBoundsAttempts ==
    wf_try_count # <<>> =>
        LET n == wf_try_count[1]
        IN  /\ wf_evals <= n
            /\ wf_trues <= 1
            /\ wf_pc \in {"loop", "sleep"} => (wf_trues = 0 /\ wf_result = "None")
            /\ wf_pc = "done" =>
                   /\ wf_result \in {"Ok", "Timeout"}
                   /\ wf_result = "Ok" <=> (wf_trues = 1 /\ wf_last)
                   /\ wf_result = "Timeout" <=> (wf_evals = n /\ wf_trues = 0)

C8_Witness ==
    /\ wf_pc = "done"
    /\ wf_try_count = <<3>>
    /\ wf_result = "Timeout"
    /\ wf_evals = 3

\* C9: wait_for with try_count = None never returns Timeout.
C9_WaitForNoneNeverTimesOut ==
    wf_try_count = <<>> => wf_result # "Timeout"

(***************************************************************************)
(* Claims about status(), checked under SpecStatus.                        *)
(***************************************************************************)
MacStatuses ==
    [full_duplex : BOOLEAN, link_up : BOOLEAN, speed : {"Mb1000", "Mb100", "Mb10"},
     phy_reset_asserted : BOOLEAN]

\* C10: status() always yields a MacStatus; its speed is Mb1000 for SPEED = 0b10,
\* Mb100 for 0b01, Mb10 for 0b00 and for 0b11; full_duplex, link_up and
\* phy_reset_asserted are bits 0, 1 and 10 of the STATUS word read.
C10_StatusDecodesSpeedAndFlags ==
    mac_status # <<>> =>
        LET st == mac_status[1]
            w == status_word
        IN  /\ st \in MacStatuses
            /\ (7 \in w /\ 6 \notin w) => st.speed = "Mb1000"
            /\ (7 \notin w /\ 6 \in w) => st.speed = "Mb100"
            /\ (7 \notin w /\ 6 \notin w) => st.speed = "Mb10"
            /\ (7 \in w /\ 6 \in w) => st.speed = "Mb10"
            /\ st.full_duplex = (0 \in w)
            /\ st.link_up = (1 \in w)
            /\ st.phy_reset_asserted = (10 \in w)

C10_Witness ==
    /\ mac_status # <<>>
    /\ {6, 7} \subseteq status_word
    /\ 8 \notin status_word
    /\ mac_status[1].speed = "Mb10"

(***************************************************************************)
(* Claims about status() during the life of an Igb, checked under SpecLife.*)
(***************************************************************************)
\* a step in which status() is called and its record of the call changes
StatusStep == statusVars' # statusVars

\* C11: a call of status() reads STATUS exactly once and writes no register;
\* what it returns is a function of the word read at that call, which is the
\* register's current value whether the call comes before open(), inside it,
\* or after it failed or succeeded; a second call that reads the same word
\* returns the same result.
C11_StatusReadsOnceWritesNothing ==
    /\ [](mac_status # <<>> =>
            /\ st_io = << <<"read", "STATUS", status_word>> >>
            /\ mac_status[1] = status(status_word))
    /\ [][StatusStep =>
            /\ status_word' = reg_status
            /\ <<regVars, reg_ctrl_ext, reg_eicr>>' = <<regVars, reg_ctrl_ext, reg_eicr>>
            /\ io' = io
            /\ (mac_status # <<>> /\ status_word = reg_status)
                   => mac_status' = mac_status]_vars

C11_Witness ==
    /\ pc = "returned"
    /\ st_at = <<"after open", "Timeout">>
    /\ STATUS_LU_OFFSET \in status_word
    /\ mac_status[1].link_up
    /\ opens = 1

(***************************************************************************)
(* Claims about check_vid_did, checked under SpecVidDid.                   *)
(***************************************************************************)
\* C12: check_vid_did(vid, did) is true exactly when vid is 0x8086 (32902)
\* and did is 0x10C9 (4297) or 0x1533 (5427).
C12_CheckVidDidAcceptsIntelIgb ==
    cv_out # <<>> =>
        (cv_out[1] <=> (cv_in[1] = 32902 /\ cv_in[2] \in {4297, 5427}))

C12_Witness ==
    /\ cv_in = <<32902, 5427>>
    /\ cv_out = <<TRUE>>

(***************************************************************************)
(* Claims about link_mode(), checked under SpecLinkMode.                   *)
(***************************************************************************)
\* C13: link_mode() returns Some(DirectCooper) when bits 23..22 of CTRL_EXT
\* are 00, Some(Sgmii) when 10, Some(InternalSerdes) when 11 and None when
\* 01; it always returns one of these.
C13_LinkModeDecodesCtrlExt ==
    lm_out # <<>> =>
        LET hi == 23 \in lm_word
            lo == 22 \in lm_word
        IN  /\ lm_out[1] \in {<<>>, <<"DirectCooper">>, <<"Sgmii">>, <<"InternalSerdes">>}
            /\ (~hi /\ ~lo) => lm_out[1] = <<"DirectCooper">>
            /\ (hi /\ ~lo) => lm_out[1] = <<"Sgmii">>
            /\ (hi /\ lo) => lm_out[1] = <<"InternalSerdes">>
            /\ (~hi /\ lo) => lm_out[1] = <<>>

C13_Witness ==
    /\ lm_out = << <<>> >>
    /\ 22 \in lm_word
    /\ 23 \notin lm_word
    /\ 21 \in lm_word

(***************************************************************************)
(* Claims about the interrupt operations, checked under SpecIrq.           *)
(***************************************************************************)
\* the positions in the side effects evs of the accesses of kind k to register r
Accesses(evs, k, r) == {i \in 1..Len(evs) : evs[i][1] = k /\ evs[i][2] = r}

\* C14: every call of disable_interrupts() and of clear_interrupts() stores
\* all-ones to EIMC and stores nothing else; clear_interrupts() is that one
\* store followed by exactly one read of EICR, and the call ends with that
\* read; neither operation stores to EIMS, whose content they leave alone.
C14_DisableAndClearMaskThenAcknowledge ==
    /\ \A n \in 1..Len(irq_log) :
          LET op == irq_log[n][1]
              evs == irq_log[n][2]
          IN  op \in {"disable_interrupts", "clear_interrupts"} =>
                /\ Accesses(evs, "write", "EIMC") # {}
                /\ \A i \in 1..Len(evs) :
                      evs[i][1] = "write" => evs[i] = <<"write", "EIMC", 0..31>>
                /\ Accesses(evs, "write", "EIMS") = {}
                /\ Accesses(evs, "read", "EICR") = {Len(evs)}
                /\ \A i \in Accesses(evs, "write", "EIMC") : i < Len(evs)
                /\ op = "clear_interrupts" =>
                      evs = << <<"write", "EIMC", 0..31>>, <<"read", "EICR", {}>> >>
    /\ (\A n \in 1..Len(irq_log) : irq_log[n][1] # "enable_interrupts")
          => reg_eims = {}
    /\ (irq_log # <<>> /\ irq_log[Len(irq_log)][1] # "enable_interrupts")
          => reg_eimc = 0..31

C14_Witness ==
    /\ Len(irq_log) = 2
    /\ irq_log[1][1] = "clear_interrupts"
    /\ irq_log[2][1] = "disable_interrupts"
    /\ Len(irq_log[2][2]) = 3
    /\ reg_eimc = 0..31
    /\ reg_eims = {}

\* C15 as stated: every call of enable_interrupts() stores all-ones to EIMC.
C15_EnableWritesEimc ==
    \A n \in 1..Len(irq_log) :
        irq_log[n][1] = "enable_interrupts" =>
            \E i \in Accesses(irq_log[n][2], "write", "EIMC") :
                irq_log[n][2][i][3] = 0..31

\* C15, amended: a call of enable_interrupts() is exactly one store of
\* all-ones to EIMS (0x1524); it neither stores to EIMC nor reads EICR.
C15_EnableWritesEims ==
    /\ \A n \in 1..Len(irq_log) :
          irq_log[n][1] = "enable_interrupts" =>
              irq_log[n][2] = << <<"write", "EIMS", 0..31>> >>
    /\ (irq_log # <<>> /\ irq_log[Len(irq_log)][1] = "enable_interrupts") =>
          /\ reg_eims = 0..31
          /\ Len(irq_log) = 1 => reg_eimc = {}

C15_Witness ==
    /\ irq_log = << <<"enable_interrupts", << <<"write", "EIMS", 0..31>> >> >> >>
    /\ reg_eims = 0..31
    /\ reg_eimc = {}
    /\ reg_eicr # {}

(***************************************************************************)
(* Claims about the order of the MDIC accesses, checked under SpecMdic.    *)
(***************************************************************************)
\* a step in which the driver polls MDIC
MdicPollStep ==
    /\ m_pc = "poll"
    /\ (m_polls' # m_polls \/ m_last' # m_last \/ m_pc' = "done")

\* C16: a read_mdic or write_mdic call stores the command word to MDIC once,
\* then issues one memory barrier, and only then polls: before the barrier
\* no poll has been made, every poll finds exactly the store followed by the
\* barrier behind it, and a poll neither stores to MDIC nor issues anything.
C16_MdicStoreThenBarrierThenPoll ==
    /\ [](/\ (m_pc = "barrier" =>
                 /\ Len(io) = 1
                 /\ io[1][1] = "write" /\ io[1][2] = "MDIC"
                 /\ m_polls = 0)
           /\ (m_pc \in {"poll", "done"} =>
                 /\ Len(io) = 2
                 /\ io[1][1] = "write" /\ io[1][2] = "MDIC"
                 /\ io[2][1] = "mb")
           /\ (m_polls > 0 => m_pc \in {"poll", "done"}))
    /\ [][MdicPollStep =>
            /\ Len(io) = 2 /\ io[1][1] = "write" /\ io[2][1] = "mb"
            /\ io' = io
            /\ reg_mdic' = reg_mdic]_vars

C16_Witness ==
    /\ m_pc = "done"
    /\ m_op = "read"
    /\ m_polls = 2
    /\ Len(io) = 2
    /\ io[1] = <<"write", "MDIC", ReadMdicWord(33, 34)>>
    /\ io[2][1] = "mb"

(***************************************************************************)
(* Claims about the sleeps of wait_for, checked under SpecWaitFor.         *)
(***************************************************************************)
\* C17: wait_for sleeps exactly once after each evaluation of the predicate
\* that yields false and never after one that yields true: while it loops
\* every evaluation so far was false and has been followed by its sleep, so
\* the next evaluation is separated from the previous one by a sleep; a
\* Timeout after n attempts comes after exactly n sleeps, 1000 of them for
\* the Some(1000) that reset() passes.
C17_WaitForSleepsAfterEachFalse ==
    /\ wf_pc = "loop" => (wf_sleeps = wf_evals /\ wf_trues = 0)
    /\ wf_pc = "sleep" => (wf_sleeps = wf_evals - 1 /\ ~wf_last /\ wf_trues = 0)
    /\ (wf_pc = "done" /\ wf_result = "Ok") =>
          (wf_sleeps = wf_evals - 1 /\ wf_last /\ wf_trues = 1)
    /\ (wf_pc = "done" /\ wf_result = "Timeout") =>
          /\ wf_sleeps = wf_evals
          /\ wf_trues = 0
          /\ wf_try_count # <<>> => wf_sleeps = wf_try_count[1]
          /\ wf_try_count = <<ResetTryCount>> => wf_sleeps = 1000

C17_Witness ==
    /\ wf_pc = "done"
    /\ wf_result = "Timeout"
    /\ wf_try_count = <<1000>>
    /\ wf_evals = 1000
    /\ wf_sleeps = 1000

(***************************************************************************)
(* Claims about the MDIC command word, checked under SpecMdic.             *)
(***************************************************************************)
\* C18: the word a transaction stores to MDIC is
\*   data + (offset mod 32) * 2^16 + (phys_addr mod 32) * 2^21 + op * 2^26
\* with op = 1 for write_mdic and op = 2 and data = 0 for read_mdic; its bits
\* 28..31 are 0; an address wider than 5 bits is cut to its low 5 bits and
\* the call is not refused with InvalidParameter.
C18_MdicCommandWord ==
    m_args # <<>> =>
        LET op == IF m_op = "write" THEN 1 ELSE 2
            expected == m_args[3] + (m_args[2] % 32) * 65536
                        + (m_args[1] % 32) * 2097152 + op * 67108864
            w == io[1][3]
        IN  /\ io[1][1] = "write" /\ io[1][2] = "MDIC"
            /\ \A i \in 0..27 : (i \in w) <=> ((expected \div Pow2(i)) % 2 = 1)
            /\ w \cap (28..31) = {}
            /\ m_op = "read" => m_args[3] = 0
            /\ m_result # "InvalidParameter"

C18_Witness ==
    /\ m_args = <<2, 34, 43981>>
    /\ m_op = "write"
    /\ m_result = "Ok"
    /\ {17, 22, 26} \subseteq io[1][3]
    /\ io[1][3] \cap {21, 27} = {}

(***************************************************************************)
(* Claims about the register accesses of reset(), checked under Spec.      *)
(***************************************************************************)
\* the registers other than CTRL
RegsButCtrl == <<reg_status, reg_mdic, reg_eimc, reg_eims, reg_ctrl_ext, reg_eicr>>

\* C19: reset() begins with one store to CTRL of the word CTRL held, with
\* bits 26 and 31 set and every other bit as it was; while it polls, and
\* until it returns, it stores nothing more; it stores to no other register.
C19_ResetStoresCtrlOnce ==
    /\ [](pc = "reset_wait" =>
            /\ Cardinality(Accesses(io, "write", "CTRL")) = 1
            /\ io[Len(io)][1] = "write" /\ io[Len(io)][2] = "CTRL"
            /\ {26, 31} \subseteq io[Len(io)][3])
    /\ [][/\ (pc = "reset" /\ pc' # "reset") =>
               /\ pc' = "reset_wait"
               /\ reg_ctrl' = reg_ctrl \cup {26, 31}
               /\ io' = Append(io, <<"write", "CTRL", reg_ctrl \cup {26, 31}>>)
               /\ RegsButCtrl' = RegsButCtrl
          /\ pc = "reset_wait" =>
               /\ io' = io
               /\ RegsButCtrl' = RegsButCtrl
               /\ reg_ctrl' \in {reg_ctrl, reg_ctrl \ {26}}]_vars

C19_Witness ==
    /\ pc = "reset_wait"
    /\ ctrl_reads = 2
    /\ reg_ctrl = {0, 6, 26, 31}
    /\ io[Len(io)] = <<"write", "CTRL", {0, 6, 26, 31}>>

(***************************************************************************)
(* Claims about READY and E set together, checked under SpecMdic.          *)
(***************************************************************************)
\* C20: READY is tested before E: a transaction whose deciding poll extracted
\* a word with both bits 28 and 30 set returns Ok, read_mdic with the low 16
\* bits of that word; the MDIC error is returned only for a word with bit 30
\* set and bit 28 clear.
C20_ReadyTakesPrecedenceOverE ==
    m_pc = "done" =>
        /\ (28 \in m_last /\ 30 \in m_last) =>
              /\ m_result = "Ok"
              /\ m_op = "read" =>
                    \A i \in 0..15 : (i \in m_last) <=> ((m_data \div Pow2(i)) % 2 = 1)
        /\ m_result # "Ok" =>
              /\ m_result = "Unknown(MDIC read error)"
              /\ 30 \in m_last
              /\ 28 \notin m_last

C20_Witness ==
    /\ m_pc = "done"
    /\ m_op = "read"
    /\ {28, 30} \subseteq m_last
    /\ m_result = "Ok"
    /\ m_data = 43981

(***************************************************************************)
(* Claims about the interrupt masks during open(), checked under Spec.     *)
(***************************************************************************)
\* the positions in the side effects evs of the stores to EIMS or EIMC
MaskWrites(evs) == Accesses(evs, "write", "EIMS") \cup Accesses(evs, "write", "EIMC")

\* C21: open() never stores to EIMS; when it has returned, with Ok or with
\* an error, its last store to an interrupt mask register is all-ones to
\* EIMC; the second disable_interrupts() is reached only after reset() has
\* returned Ok, and an open() that returned Ok stored all-ones to EIMC both
\* before and after its store to CTRL.
C21_OpenNeverEnablesInterrupts ==
    /\ Accesses(io, "write", "EIMS") = {}
    /\ reg_eims = {}
    /\ pc = "returned" =>
          /\ MaskWrites(io) # {}
          /\ \A i \in MaskWrites(io) : io[i] = <<"write", "EIMC", 0..31>>
          /\ reg_eimc = 0..31
    /\ pc = "disable2" =>
          /\ rets = << <<"reset", "Ok">> >>
          /\ \A c \in Accesses(io, "write", "CTRL"), i \in MaskWrites(io) : i < c
    /\ (pc = "returned" /\ open_result = "Ok") =>
          \E c \in Accesses(io, "write", "CTRL") :
              /\ \E i \in 1..(c - 1) : io[i] = <<"write", "EIMC", 0..31>>
              /\ \E j \in (c + 1)..Len(io) : io[j] = <<"write", "EIMC", 0..31>>

C21_Witness ==
    /\ pc = "returned"
    /\ open_result = "Ok"
    /\ Len(io) = 7
    /\ io[4][2] = "CTRL"
    /\ io[5] = <<"write", "EIMC", 0..31>>
    /\ reg_eims = {}

(***************************************************************************)
(* Claims about repeated open(), checked under SpecLife.                   *)
(***************************************************************************)
\* the operations open() invokes when no step fails, in program order
OpenSequence ==
    <<"disable_interrupts", "reset", "disable_interrupts", "power_up", "power_up",
      "enable_auto_negotiation", "wait_for_auto_negotiation_complete">>

\* C22: every open(), the first one and one that follows a failed or a
\* successful one alike, starts at the first disable_interrupts() and invokes
\* a prefix of the one sequence of steps; an open() that failed stopped at
\* the step that failed and invoked nothing after it; within one open()
\* reset() is invoked, and CTRL is stored to, at most once.
C22_OpenStartsFromScratch ==
    /\ [](/\ Len(calls) <= Len(OpenSequence)
          /\ calls = SubSeq(OpenSequence, 1, Len(calls))
          /\ Cardinality({i \in 1..Len(calls) : calls[i] = "reset"}) <= 1
          /\ Cardinality(Accesses(io, "write", "CTRL")) <= 1
          /\ (pc = "returned" /\ open_result # "Ok") =>
                /\ rets[Len(rets)][2] = open_result
                /\ calls[Len(calls)] = rets[Len(rets)][1]
          /\ (pc = "returned" /\ open_result = "Ok") => calls = OpenSequence)
    /\ [][(pc \in {"idle", "returned"} /\ pc' # pc) =>
            /\ pc' = "disable1"
            /\ calls' = <<>>
            /\ io' = <<>>]_vars

C22_Witness ==
    /\ opens = 2
    /\ st_at = <<"after open", "Timeout">>
    /\ pc = "returned"
    /\ open_result = "Ok"
    /\ calls = OpenSequence
    /\ Len(io) = 7

====
